---- MODULE Spec2Model ----
(***************************************************************************)
(* wayback-archiver: the library function archive_url (src/lib.rs) and the *)
(* command-line program main with its own private archive_url              *)
(* (src/main.rs).                                                          *)
(*                                                                         *)
(* Text is a sequence of one-character strings.  A URL of the archive is   *)
(* the sequence of its path segments (the text between the slashes after   *)
(* the host), each segment a text.  An instant is a number of seconds      *)
(* since 1970-01-01T00:00:00 UTC.                                          *)
(***************************************************************************)
EXTENDS Integers, Sequences, FiniteSets, TLC

(***************************************************************************)
(* Bounds of the model.                                                    *)
(***************************************************************************)
\* longest standard input, in lines
MaxInput == 2
\* most 509 answers the service gives for one input line
MaxRateLimited == 2
\* most candidates in one availability answer
MaxSnapshots == 2
\* most entries of the file found at the --out path at startup
MaxFileEntries == 1
\* the length of the one long standard input, which repeats a line
LongLen == 100

(***************************************************************************)
(* Program constants.                                                      *)
(***************************************************************************)
\* Duration::days(90)
FreshDays == 90
\* Duration::days(30 * 6)
ReuseDays == 180
\* Duration::seconds(15)
RateLimitSleep == 15
\* Duration::seconds(5)
CooldownSleep == 5
SecondsPerDay == 24 * 3600

(***************************************************************************)
(* Option and Result values.                                               *)
(***************************************************************************)
None == [some |-> FALSE, v |-> <<>>]
Some(x) == [some |-> TRUE, v |-> x]
Ok(x) == [ok |-> TRUE, v |-> x, err |-> "none"]
Err(e) == [ok |-> FALSE, v |-> <<>>, err |-> e]

(***************************************************************************)
(* Text.                                                                   *)
(***************************************************************************)
DigitChar == <<"0", "1", "2", "3", "4", "5", "6", "7", "8", "9">>

IsDigit(c) == \E i \in 1..10 : DigitChar[i] = c

DigitVal(c) == (CHOOSE i \in 1..10 : DigitChar[i] = c) - 1

AllDigits(s) == \A i \in 1..Len(s) : IsDigit(s[i])

\* the number written by the digits of s
RECURSIVE NumVal(_)
NumVal(s) ==
    IF s = <<>> THEN 0
    ELSE 10 * NumVal(SubSeq(s, 1, Len(s) - 1)) + DigitVal(s[Len(s)])

\* n written with exactly w digits
RECURSIVE Dig(_, _)
Dig(n, w) ==
    IF w = 0 THEN <<>> ELSE Dig(n \div 10, w - 1) \o <<DigitChar[(n % 10) + 1]>>

\* s < t in the order of Rust's str (byte by byte, a prefix first); the
\* texts compared here hold digits and lower-case letters only
CharRank(c) == IF IsDigit(c) THEN DigitVal(c) ELSE 10

RECURSIVE StrLess(_, _)
StrLess(s, t) ==
    IF t = <<>> THEN FALSE
    ELSE IF s = <<>> THEN TRUE
    ELSE IF s[1] = t[1] THEN StrLess(Tail(s), Tail(t))
    ELSE CharRank(s[1]) < CharRank(t[1])

StartsWith(s, p) == Len(s) >= Len(p) /\ SubSeq(s, 1, Len(p)) = p

(***************************************************************************)
(* Calendar (chrono's NaiveDateTime, proleptic Gregorian).                 *)
(***************************************************************************)
IsLeap(y) == (y % 4 = 0 /\ y % 100 # 0) \/ y % 400 = 0

DaysInMonth(y, m) ==
    IF m = 2 THEN (IF IsLeap(y) THEN 29 ELSE 28)
    ELSE IF m \in {4, 6, 9, 11} THEN 30 ELSE 31

\* days from 1970-01-01 to y-m-d
DaysFromCivil(y, m, d) ==
    LET yy == IF m <= 2 THEN y - 1 ELSE y
        era == yy \div 400
        yoe == yy - era * 400
        mp == IF m > 2 THEN m - 3 ELSE m + 9
        doy == (153 * mp + 2) \div 5 + d - 1
        doe == yoe * 365 + yoe \div 4 - yoe \div 100 + doy
    IN  era * 146097 + doe - 719468

\* <<y, m, d>> of the day z days after 1970-01-01
CivilFromDays(z) ==
    LET zz == z + 719468
        era == zz \div 146097
        doe == zz - era * 146097
        yoe == (doe - doe \div 1460 + doe \div 36524 - doe \div 146096) \div 365
        doy == doe - (365 * yoe + yoe \div 4 - yoe \div 100)
        mp == (5 * doy + 2) \div 153
        d == doy - (153 * mp + 2) \div 5 + 1
        m == IF mp < 10 THEN mp + 3 ELSE mp - 9
        y == yoe + era * 400 + (IF m <= 2 THEN 1 ELSE 0)
    IN  <<y, m, d>>

\* the instant of the calendar fields f = <<Y, M, D, h, m, s>>
InstantOf(f) ==
    DaysFromCivil(f[1], f[2], f[3]) * SecondsPerDay + f[4] * 3600 + f[5] * 60 + f[6]

\* the calendar fields of instant t
FieldsOf(t) ==
    LET day == t \div SecondsPerDay
        sec == t % SecondsPerDay
        c == CivilFromDays(day)
    IN  <<c[1], c[2], c[3], sec \div 3600, (sec % 3600) \div 60, sec % 60>>

ValidFields(f) ==
    /\ f[2] \in 1..12
    /\ f[3] >= 1 /\ f[3] <= DaysInMonth(f[1], f[2])
    /\ f[4] \in 0..23
    /\ f[5] \in 0..59
    /\ f[6] \in 0..59

(***************************************************************************)
(* lib.rs: parse_wayback_timestamp, timestamp_from_archive_url.            *)
(***************************************************************************)
\* the widths of %Y %m %d %H %M %S
StampWidths == <<4, 2, 2, 2, 2, 2>>

\* chrono scans each numeric field as one to width digits, greedily; the
\* result is the sequence of fields, or <<>> when a field is missing or
\* text is left over
RECURSIVE ScanFields(_, _)
ScanFields(s, widths) ==
    IF widths = <<>> THEN (IF s = <<>> THEN <<<<>>>> ELSE <<>>)
    ELSE LET w == IF Len(s) < widths[1] THEN Len(s) ELSE widths[1]
         IN  IF w = 0 \/ ~AllDigits(SubSeq(s, 1, w)) THEN <<>>
             ELSE LET rest == ScanFields(SubSeq(s, w + 1, Len(s)), Tail(widths))
                  IN  IF rest = <<>> THEN <<>>
                      ELSE <<<<NumVal(SubSeq(s, 1, w))>> \o rest[1]>>

ParseWaybackTimestamp(ts) ==
    LET r == ScanFields(ts, StampWidths)
    IN  IF r = <<>> THEN Err("ParseError")
        ELSE IF ~ValidFields(r[1]) THEN Err("ParseError")
        ELSE Ok(InstantOf(r[1]))

WebSegment == <<"w", "e", "b">>

\* the regex /web/(\d+)/ : a segment "web", then a non-empty segment of
\* digits, then a slash; the leftmost match
TimestampMatches(path) ==
    {i \in 1..Len(path) :
        /\ path[i] = WebSegment
        /\ i + 2 <= Len(path)
        /\ path[i + 1] # <<>>
        /\ AllDigits(path[i + 1])}

TimestampFromArchiveUrl(path) ==
    LET ms == TimestampMatches(path)
    IN  IF ms = {} THEN Err("ParseError")
        ELSE LET i == CHOOSE k \in ms : \A j \in ms : k <= j
             IN  ParseWaybackTimestamp(path[i + 1])

\* the first segment compared with "web" instead of its prefix
PathFirstSegmentIsWeb(path) == path # <<>> /\ path[1] = WebSegment

\* resp.url().path().starts_with("/web")
PathStartsWithWeb(path) == path # <<>> /\ StartsWith(path[1], WebSegment)


(***************************************************************************)
(* The archive service as the program sees it, and the inputs of a run.    *)
(***************************************************************************)
\* n written as a wayback timestamp, YYYYMMDDHHMMSS
Stamp(f) ==
    Dig(f[1], 4) \o Dig(f[2], 2) \o Dig(f[3], 2) \o Dig(f[4], 2) \o Dig(f[5], 2)
        \o Dig(f[6], 2)

\* the clock at the start of a run: 2021-01-01T00:00:00
NowInit == InstantOf(<<2021, 1, 1, 0, 0, 0>>)

\* one second younger than 90 days at NowInit, older after any sleep
TsEdge == Stamp(FieldsOf(NowInit - FreshDays * SecondsPerDay + 1))
\* 19 months old
TsOld == Stamp(<<2019, 6, 1, 12, 0, 0>>)
\* not a timestamp; sorts after TsOld and before TsEdge
TsBad == <<"2", "0", "2", "0">>
\* the capture made by a save request, ten seconds before NowInit
TsNew == Stamp(FieldsOf(NowInit - 10))

OrigSegment == <<"o">>

\* the lines of standard input, in the order of Rust's String
UrlOrder == <<"u1", "u2">>
Lines == {UrlOrder[i] : i \in 1..Len(UrlOrder)}

SnapshotSamples ==
    { [url |-> <<WebSegment, TsEdge, OrigSegment>>, timestamp |-> TsEdge],
      [url |-> <<WebSegment, TsOld, OrigSegment>>, timestamp |-> TsOld],
      [url |-> <<WebSegment, TsBad, OrigSegment>>, timestamp |-> TsBad] }

\* answers to GET http://archive.org/wayback/available?url=...
AvailResponses ==
    { [kind |-> "transport", snaps |-> {}],
      [kind |-> "malformed", snaps |-> {}],
      [kind |-> "null", snaps |-> {}] }
    \cup { [kind |-> "map", snaps |-> S] :
             S \in {T \in SUBSET SnapshotSamples : Cardinality(T) <= MaxSnapshots} }

NoAvail == [kind |-> "none", snaps |-> {}]

Statuses == {200, 404, 509, 403, 520, 523, 500}

\* final URLs of GET https://web.archive.org/save/...
FinalPaths ==
    { <<WebSegment, TsNew, OrigSegment>>,
      <<<<"s", "a", "v", "e">>, OrigSegment>>,
      <<<<"w", "e", "b", "x">>, OrigSegment>>,
      <<OrigSegment, WebSegment, TsNew, OrigSegment>> }

\* the URL a save request ends at when the service does not redirect it
SavePath == <<<<"s", "a", "v", "e">>, OrigSegment>>

\* a 200 or a 404 ends at any of FinalPaths, another status at SavePath
SaveResponses ==
    { [kind |-> "transport", status |-> 0, path |-> <<>>] }
    \cup { [kind |-> "http", status |-> st, path |-> p] :
             st \in {200, 404}, p \in FinalPaths }
    \cup { [kind |-> "http", status |-> st, path |-> SavePath] :
             st \in Statuses \ {200, 404} }

NoSave == [kind |-> "none", status |-> 0, path |-> <<>>]

(***************************************************************************)
(* fetch_latest_snapshot's choice: max_by_key over the HashMap's entries   *)
(* by timestamp text; among equal keys the HashMap's order decides.        *)
(***************************************************************************)
LatestOf(snaps) ==
    {s \in snaps : \A o \in snaps : ~StrLess(s.timestamp, o.timestamp)}

\* the window taken in seconds instead of days
IsRecentSeconds(t, ts) == t - FreshDays < ts

\* (Utc::now() - Duration::days(90)).naive_utc() < ts
IsRecent(t, ts) == t - FreshDays * SecondsPerDay < ts


(***************************************************************************)
(* State.                                                                  *)
(***************************************************************************)
VARIABLES
    target,     \* "bin": a run of main (main.rs); "lib": a call of archive_url (lib.rs)
    pc,         \* where the program is
    now,        \* Utc::now()
    out,        \* opts.out is Some(path)
    merge,      \* opts.merge
    file,       \* the file at the --out path
    stdout,     \* what println! wrote
    input,      \* the lines of standard input
    lineIdx,    \* lines read so far
    line,       \* the line being archived; archive_url's argument
    urls,       \* main's BTreeMap<String, ArchivingResult>
    before,     \* urls as it was when the line was read
    latest,     \* lib.rs archive_url's latest_snapshot
    result,     \* what the last call of archive_url returned
    availResp,  \* the answer to the last availability request of this attempt
    saveResp,   \* the answer to the last save request of this attempt
    availReqs,  \* availability requests issued for this line
    saveReqs,   \* save requests issued for this line
    n509,       \* 509 answers received for this line
    waits,      \* 15-second sleeps made for this line
    cooldowns,  \* 5-second sleeps made for this line
    outcome     \* how the last line ended: "cached", "archived", "tombstone"

vars ==
    <<target, pc, now, out, merge, file, stdout, input, lineIdx, line, urls, before,
      latest, result, availResp, saveResp, availReqs, saveReqs, n509, waits, cooldowns,
      outcome>>

Pending == Err("pending")

(***************************************************************************)
(* lib.rs: archive_url and fetch_latest_snapshot.                          *)
(***************************************************************************)
\* fetch_latest_snapshot for answer resp, cand being the entry max_by_key
\* returns when the answer lists entries
FetchLatestSnapshot(resp, cand) ==
    IF resp.kind = "transport" THEN Err("Unknown")
    ELSE IF resp.kind = "malformed" THEN Err("ParseError")
    ELSE IF resp.kind = "map" /\ resp.snaps # {} THEN
        LET ts == ParseWaybackTimestamp(cand.timestamp)
        IN  IF ts.ok
            THEN Ok([url |-> Some(cand.url), last_archived |-> ts.v,
                     existing_snapshot |-> TRUE])
            ELSE Err(ts.err)
    ELSE Err("NoExistingSnapshot")

\* the match on resp.status() of lib.rs
LibClassify(resp) ==
    IF resp.kind = "transport" THEN Err("Unknown")
    ELSE IF resp.status = 200 THEN Ok(resp.path)
    ELSE IF resp.status = 404 THEN
        (IF PathStartsWithWeb(resp.path) THEN Ok(resp.path) ELSE Err("Unknown"))
    ELSE IF resp.status = 509 THEN Err("BandwidthExceeded")
    ELSE IF resp.status \in {403, 520, 523} THEN Err("UnableToArchive")
    ELSE Err("Unknown")

\* archive_url.and_then(...)
LibNewResult(archived) ==
    IF ~archived.ok THEN archived
    ELSE LET ts == TimestampFromArchiveUrl(archived.v)
         IN  IF ts.ok
             THEN Ok([url |-> Some(archived.v), last_archived |-> ts.v,
                      existing_snapshot |-> FALSE])
             ELSE Err(ts.err)

\* the older snapshot standing in for every error
LibFallbackAnyError(res, latestSnapshot) ==
    IF ~res.ok
    THEN (IF latestSnapshot.ok THEN latestSnapshot ELSE res)
    ELSE res

\* the final match: an older snapshot stands in for UnableToArchive
LibFallback(res, latestSnapshot) ==
    IF ~res.ok /\ res.err = "UnableToArchive"
    THEN (IF latestSnapshot.ok THEN latestSnapshot ELSE Err("UnableToArchive"))
    ELSE res

Candidates(resp) ==
    IF resp.kind = "map" /\ resp.snaps # {} THEN LatestOf(resp.snaps)
    ELSE {[url |-> <<>>, timestamp |-> <<>>]}

\* archive_url up to the save request
LibCheckExisting ==
    /\ target = "lib"
    /\ pc = "lib_avail"
    /\ \E resp \in AvailResponses : \E cand \in Candidates(resp) :
        LET snap == FetchLatestSnapshot(resp, cand)
        IN  /\ availResp' = resp
            /\ latest' = snap
            /\ IF snap.ok /\ IsRecent(now, snap.v.last_archived)
               THEN /\ result' = snap
                    /\ pc' = "lib_done"
               ELSE /\ result' = result
                    /\ pc' = "lib_save"
    /\ availReqs' = availReqs + 1
    /\ UNCHANGED <<before, target, now, out, merge, file, stdout, input, lineIdx, line, urls,
                   saveResp, saveReqs, n509, waits, cooldowns, outcome>>

\* archive_url from the save request to its return
LibRequestNew ==
    /\ target = "lib"
    /\ pc = "lib_save"
    /\ \E resp \in SaveResponses :
        /\ saveResp' = resp
        /\ result' = LibFallback(LibNewResult(LibClassify(resp)), latest)
    /\ saveReqs' = saveReqs + 1
    /\ pc' = "lib_done"
    /\ UNCHANGED <<before, target, now, out, merge, file, stdout, input, lineIdx, line, urls,
                   latest, availResp, availReqs, n509, waits, cooldowns, outcome>>


(***************************************************************************)
(* main.rs: the cache and its file.  A file is a sequence of JSON tokens;  *)
(* an entry of the object is its key, its "url" and its "last_archived".   *)
(* A "url" that is a string is one token longer than one that is null.     *)
(***************************************************************************)
OpenToken == [t |-> "open", k |-> "", u |-> None, f |-> <<>>]
CloseToken == [t |-> "close", k |-> "", u |-> None, f |-> <<>>]
KeyToken(k) == [t |-> "key", k |-> k, u |-> None, f |-> <<>>]
UrlToken(u) == [t |-> "url", k |-> "", u |-> u, f |-> <<>>]
TimeToken(f) == [t |-> "time", k |-> "", u |-> None, f |-> f]
\* the rest of a "url" string
TextToken == [t |-> "text", k |-> "", u |-> None, f |-> <<>>]

NoFile == [exists |-> FALSE, data |-> <<>>]
FileOf(data) == [exists |-> TRUE, data |-> data]

EmptyMap == [k \in {} |-> None]

\* urls.insert(key, value)
Insert(m, key, value) ==
    [k \in DOMAIN m \cup {key} |-> IF k = key THEN value ELSE m[k]]

\* the tombstone of the Err arm
Tombstone(t) == [url |-> None, last_archived |-> t]

\* the Ok arm's record
Archived(u, t) == [url |-> Some(u), last_archived |-> t]

\* serde_json::to_string_pretty(&urls): the entries in the BTreeMap's key
\* order, last_archived written as its calendar fields
EntryTokens(k, r) ==
    <<KeyToken(k), UrlToken(r.url)>>
        \o (IF r.url.some THEN <<TextToken>> ELSE <<>>)
        \o <<TimeToken(FieldsOf(r.last_archived))>>

RECURSIVE SerializeFrom(_, _)
SerializeFrom(m, i) ==
    IF i > Len(UrlOrder) THEN <<>>
    ELSE (IF UrlOrder[i] \in DOMAIN m
          THEN EntryTokens(UrlOrder[i], m[UrlOrder[i]])
          ELSE <<>>)
         \o SerializeFrom(m, i + 1)

Serialize(m) == <<OpenToken>> \o SerializeFrom(m, 1) \o <<CloseToken>>

\* the number of tokens of the entry that toks starts with, 0 when it
\* starts with none
EntryLen(toks) ==
    IF Len(toks) >= 3 /\ toks[1].t = "key" /\ toks[2].t = "url" THEN
        IF ~toks[2].u.some
        THEN (IF toks[3].t = "time" /\ ValidFields(toks[3].f) THEN 3 ELSE 0)
        ELSE (IF /\ Len(toks) >= 4
                 /\ toks[3].t = "text"
                 /\ toks[4].t = "time"
                 /\ ValidFields(toks[4].f)
              THEN 4 ELSE 0)
    ELSE 0

\* serde_json::from_str: an object of entries and nothing after it
RECURSIVE ParseEntries(_, _)
ParseEntries(toks, acc) ==
    IF toks = <<>> THEN Err("Json")
    ELSE IF toks[1].t = "close"
        THEN (IF Len(toks) = 1 THEN Ok(acc) ELSE Err("Json"))
    ELSE LET n == EntryLen(toks)
         IN  IF n = 0 THEN Err("Json")
             ELSE ParseEntries(SubSeq(toks, n + 1, Len(toks)),
                               Insert(acc, toks[1].k,
                                      [url |-> toks[2].u,
                                       last_archived |-> InstantOf(toks[n].f)]))

Deserialize(toks) ==
    IF toks # <<>> /\ toks[1].t = "open" THEN ParseEntries(Tail(toks), EmptyMap)
    ELSE Err("Json")

\* OpenOptions::new().write(true).create(true).open(path), then write_all:
\* the bytes are written from offset 0 and the file is not truncated
WriteAll(old, data) ==
    IF old.exists /\ Len(old.data) > Len(data)
    THEN FileOf(data \o SubSeq(old.data, Len(data) + 1, Len(old.data)))
    ELSE FileOf(data)

\* the 90-day window of archive_url used for the cache as well
IsReusableWithinFreshDays(existing, t) ==
    t - existing.last_archived < FreshDays * SecondsPerDay

\* the window applied only to a record that has a url
IsReusableWithUrl(existing, t) ==
    existing.url.some /\ t - existing.last_archived < ReuseDays * SecondsPerDay

\* (Utc::now().naive_utc() - existing.last_archived) < Duration::days(30 * 6)
IsReusable(existing, t) == t - existing.last_archived < ReuseDays * SecondsPerDay

(***************************************************************************)
(* The files a run may find at the --out path.                             *)
(***************************************************************************)
CachedUrl == <<WebSegment, TsOld, OrigSegment>>

RecordSamples ==
    { \* 100 days old
      [url |-> Some(CachedUrl), last_archived |-> NowInit - 100 * SecondsPerDay],
      \* one second younger than 180 days at NowInit
      [url |-> Some(CachedUrl),
       last_archived |-> NowInit - ReuseDays * SecondsPerDay + 1],
      \* a failure recorded 10 days ago
      Tombstone(NowInit - 10 * SecondsPerDay),
      \* 200 days old
      [url |-> Some(CachedUrl), last_archived |-> NowInit - 200 * SecondsPerDay] }

CacheSamples ==
    UNION { [D -> RecordSamples] :
              D \in {E \in SUBSET Lines : Cardinality(E) <= MaxFileEntries} }

\* a file an earlier run wrote over a longer one
OverwrittenFile ==
    WriteAll(FileOf(Serialize([k \in {UrlOrder[1]} |->
                                 Tombstone(NowInit - 10 * SecondsPerDay)])),
             Serialize(EmptyMap))

\* what --merge may find at the --out path
FileSamples ==
    {NoFile, OverwrittenFile} \cup {FileOf(Serialize(c)) : c \in CacheSamples}

\* what a run without --merge may find there: only its length matters
StaleFileSamples ==
    {NoFile} \cup {FileOf(Serialize(c)) : c \in {d \in CacheSamples :
                       \A k \in DOMAIN d : d[k] = Tombstone(NowInit - 10 * SecondsPerDay)}}

RECURSIVE SeqsUpTo(_, _)
SeqsUpTo(S, n) ==
    IF n = 0 THEN {<<>>}
    ELSE LET shorter == SeqsUpTo(S, n - 1)
         IN  shorter \cup {Append(q, x) : q \in shorter, x \in S}

\* every short input, and one long input that repeats its line
Inputs == SeqsUpTo(Lines, MaxInput) \cup {[i \in 1..LongLen |-> UrlOrder[1]]}


(***************************************************************************)
(* main.rs: archive_url.                                                   *)
(***************************************************************************)
\* the match without its 509 arm
MainClassifyWithout509(resp) ==
    IF resp.kind = "transport" THEN Err("Reqwest")
    ELSE IF resp.status = 200 THEN Ok(resp.path)
    ELSE IF resp.status = 404 THEN
        (IF PathStartsWithWeb(resp.path) THEN Ok(resp.path) ELSE Err("Unknown"))
    ELSE IF resp.status \in {520, 523} THEN Err("ArchiveFailed")
    ELSE Err("Unknown")

\* the match on resp.status() of main.rs; "Reqwest" is an error that is not
\* an ArchiveError
MainClassify(resp) ==
    IF resp.kind = "transport" THEN Err("Reqwest")
    ELSE IF resp.status = 200 THEN Ok(resp.path)
    ELSE IF resp.status = 404 THEN
        (IF PathStartsWithWeb(resp.path) THEN Ok(resp.path) ELSE Err("Unknown"))
    ELSE IF resp.status = 509 THEN Err("BandwidthExceeded")
    ELSE IF resp.status \in {520, 523} THEN Err("ArchiveFailed")
    ELSE Err("Unknown")

\* the match on archive_url's return in main's loop, up to the sleep
Complete(res) ==
    /\ result' = res
    /\ IF res.ok
       THEN /\ urls' = Insert(urls, line, Archived(res.v, now))
            /\ outcome' = "archived"
            /\ pc' = "cooldown"
       ELSE IF res.err = "BandwidthExceeded"
       THEN /\ urls' = urls
            /\ outcome' = outcome
            /\ pc' = "backoff"
       ELSE /\ urls' = Insert(urls, line, Tombstone(now))
            /\ outcome' = "tombstone"
            /\ pc' = "cooldown"

(***************************************************************************)
(* main.rs: main.                                                          *)
(***************************************************************************)
\* lines 23-34: --merge reads the file at the --out path
MainLoad ==
    /\ target = "bin"
    /\ pc = "start"
    /\ IF ~merge THEN urls' = urls /\ pc' = "read"
       ELSE IF ~out THEN urls' = urls /\ pc' = "panicked"
       ELSE IF ~file.exists THEN urls' = urls /\ pc' = "read"
       ELSE LET parsed == Deserialize(file.data)
            IN  IF parsed.ok THEN urls' = parsed.v /\ pc' = "read"
                ELSE urls' = urls /\ pc' = "failed"
    /\ UNCHANGED <<before, target, now, out, merge, file, stdout, input, lineIdx, line, latest,
                   result, availResp, saveResp, availReqs, saveReqs, n509, waits,
                   cooldowns, outcome>>

\* line 31: fs::read_to_string fails with another error than NotFound
MainLoadError ==
    /\ target = "bin"
    /\ pc = "start"
    /\ merge /\ out /\ file.exists
    /\ pc' = "failed"
    /\ UNCHANGED <<before, target, now, out, merge, file, stdout, input, lineIdx, line, urls,
                   latest, result, availResp, saveResp, availReqs, saveReqs, n509,
                   waits, cooldowns, outcome>>

\* lines 37-39: the next line of standard input, or its end
MainReadLine ==
    /\ target = "bin"
    /\ pc = "read"
    /\ IF lineIdx = Len(input)
       THEN /\ pc' = "persist"
            /\ UNCHANGED <<lineIdx, line, before, cooldowns, outcome>>
       ELSE /\ pc' = "lookup"
            /\ line' = input[lineIdx + 1]
            /\ lineIdx' = lineIdx + 1
            /\ before' = urls
            /\ cooldowns' = 0
            /\ outcome' = "none"
    /\ UNCHANGED <<target, now, out, merge, file, stdout, input, urls, latest, result,
                   availResp, saveResp, availReqs, saveReqs, n509, waits>>

\* line 38: reading the line fails
MainReadError ==
    /\ target = "bin"
    /\ pc = "read"
    /\ lineIdx < Len(input)
    /\ pc' = "failed"
    /\ UNCHANGED <<before, target, now, out, merge, file, stdout, input, lineIdx, line, urls,
                   latest, result, availResp, saveResp, availReqs, saveReqs, n509,
                   waits, cooldowns, outcome>>

\* lines 40-46: a recent enough record of the line ends its processing
MainLookup ==
    /\ target = "bin"
    /\ pc = "lookup"
    /\ IF line \in DOMAIN urls /\ IsReusable(urls[line], now)
       THEN pc' = "read" /\ outcome' = "cached"
       ELSE pc' = "avail" /\ outcome' = outcome
    /\ UNCHANGED <<before, target, now, out, merge, file, stdout, input, lineIdx, line, urls,
                   latest, result, availResp, saveResp, availReqs, saveReqs, n509,
                   waits, cooldowns>>

\* lines 50, 136-153: archive_url up to the save request
MainCheckExisting ==
    /\ target = "bin"
    /\ pc = "avail"
    /\ availReqs' = availReqs + 1
    /\ \E resp \in AvailResponses : \E cand \in Candidates(resp) :
        /\ availResp' = resp
        /\ IF resp.kind \in {"transport", "malformed"} THEN Complete(Err("Reqwest"))
           ELSE IF resp.kind = "map" /\ resp.snaps # {} THEN
               LET ts == ParseWaybackTimestamp(cand.timestamp)
               IN  IF ~ts.ok
                   THEN \* .expect("snapshot timestamp")
                        /\ pc' = "panicked"
                        /\ UNCHANGED <<result, urls, outcome>>
                   ELSE IF IsRecent(now, ts.v) THEN Complete(Ok(cand.url))
                   ELSE pc' = "save" /\ UNCHANGED <<result, urls, outcome>>
           ELSE pc' = "save" /\ UNCHANGED <<result, urls, outcome>>
    /\ UNCHANGED <<before, target, now, out, merge, file, stdout, input, lineIdx, line, latest,
                   saveResp, saveReqs, n509, waits, cooldowns>>

\* lines 156-180: archive_url from the save request to its return
MainRequestNew ==
    /\ target = "bin"
    /\ pc = "save"
    /\ saveReqs' = saveReqs + 1
    /\ \E resp \in SaveResponses :
        /\ resp.kind = "http" /\ resp.status = 509 => n509 < MaxRateLimited
        /\ saveResp' = resp
        /\ n509' = IF resp.kind = "http" /\ resp.status = 509 THEN n509 + 1 ELSE n509
        /\ Complete(MainClassify(resp))
    /\ UNCHANGED <<before, target, now, out, merge, file, stdout, input, lineIdx, line, latest,
                   availResp, availReqs, waits, cooldowns>>

\* `continue` taken for the loop over the lines: the next line is read
MainBackoffSkipsLine ==
    /\ target = "bin"
    /\ pc = "backoff"
    /\ now' = now + RateLimitSleep
    /\ waits' = 0
    /\ pc' = "read"
    /\ result' = Pending
    /\ availResp' = NoAvail
    /\ saveResp' = NoSave
    /\ availReqs' = 0
    /\ saveReqs' = 0
    /\ n509' = 0
    /\ UNCHANGED <<before, target, out, merge, file, stdout, input, lineIdx, line, urls, latest,
                   cooldowns, outcome>>

\* lines 63-65: sleep 15 seconds, then the loop's next turn
MainBackoff ==
    /\ target = "bin"
    /\ pc = "backoff"
    /\ now' = now + RateLimitSleep
    /\ waits' = waits + 1
    /\ pc' = "avail"
    \* `continue`: the next turn's call starts afresh
    /\ result' = Pending
    /\ availResp' = NoAvail
    /\ saveResp' = NoSave
    /\ UNCHANGED <<before, target, out, merge, file, stdout, input, lineIdx, line, urls, latest,
                   availReqs, saveReqs, n509, cooldowns, outcome>>

\* line 77: sleep 5 seconds after the loop
MainCooldown ==
    /\ target = "bin"
    /\ pc = "cooldown"
    /\ now' = now + CooldownSleep
    /\ cooldowns' = cooldowns + 1
    /\ pc' = "read"
    \* the loop body's locals end here
    /\ result' = Pending
    /\ availResp' = NoAvail
    /\ saveResp' = NoSave
    /\ availReqs' = 0
    /\ saveReqs' = 0
    /\ n509' = 0
    /\ waits' = 0
    /\ UNCHANGED <<before, target, out, merge, file, stdout, input, lineIdx, line, urls, latest,
                   outcome>>

\* lines 80-91: the map is written to the --out path, or printed
MainPersist ==
    /\ target = "bin"
    /\ pc = "persist"
    /\ IF out
       THEN file' = WriteAll(file, Serialize(urls)) /\ stdout' = stdout
       ELSE file' = file /\ stdout' = Serialize(urls)
    /\ pc' = "done"
    /\ UNCHANGED <<before, target, now, out, merge, input, lineIdx, line, urls, latest, result,
                   availResp, saveResp, availReqs, saveReqs, n509, waits, cooldowns,
                   outcome>>

\* lines 83-84: opening or writing the file fails
MainPersistError ==
    /\ target = "bin"
    /\ pc = "persist"
    /\ out
    /\ pc' = "failed"
    /\ UNCHANGED <<before, target, now, out, merge, file, stdout, input, lineIdx, line, urls,
                   latest, result, availResp, saveResp, availReqs, saveReqs, n509,
                   waits, cooldowns, outcome>>

(***************************************************************************)
(* The two programs.                                                       *)
(***************************************************************************)
Init ==
    /\ target \in {"bin", "lib"}
    /\ IF target = "bin"
       THEN /\ pc = "start"
            /\ now = NowInit
            /\ out \in BOOLEAN
            /\ merge \in BOOLEAN
            /\ file \in (IF ~out THEN {NoFile}
                         ELSE IF merge THEN FileSamples ELSE StaleFileSamples)
            /\ input \in Inputs
            /\ line = ""
       ELSE /\ pc = "lib_avail"
            /\ now \in {NowInit, NowInit + RateLimitSleep}
            /\ out = FALSE
            /\ merge = FALSE
            /\ file = NoFile
            /\ input = <<>>
            /\ line \in Lines
    /\ stdout = <<>>
    /\ lineIdx = 0
    /\ urls = EmptyMap
    /\ before = EmptyMap
    /\ latest = Pending
    /\ result = Pending
    /\ availResp = NoAvail
    /\ saveResp = NoSave
    /\ availReqs = 0
    /\ saveReqs = 0
    /\ n509 = 0
    /\ waits = 0
    /\ cooldowns = 0
    /\ outcome = "none"

Next ==
    \/ LibCheckExisting
    \/ LibRequestNew
    \/ MainLoad
    \/ MainLoadError
    \/ MainReadLine
    \/ MainReadError
    \/ MainLookup
    \/ MainCheckExisting
    \/ MainRequestNew
    \/ MainBackoff
    \/ MainCooldown
    \/ MainPersist
    \/ MainPersistError

Spec == Init /\ [][Next]_vars


(***************************************************************************)
(* What the properties below say of the sample data, stated without the    *)
(* program's own decoding.                                                 *)
(***************************************************************************)
\* the instant a sample timestamp names, -1 when it names none
SampleInstant(ts) ==
    IF ts = TsEdge THEN NowInit - 90 * SecondsPerDay + 1
    ELSE IF ts = TsOld THEN 1559390400
    ELSE IF ts = TsNew THEN NowInit - 10
    ELSE -1

\* the candidates of the last availability answer with the greatest timestamp
Selected ==
    {s \in availResp.snaps : \A o \in availResp.snaps : ~StrLess(s.timestamp, o.timestamp)}

\* the availability check of this call obtained an existing snapshot
ExistingObtained ==
    availResp.kind = "map" /\ \E s \in Selected : SampleInstant(s.timestamp) >= 0

\* archive_url has just returned `result`
CallReturned ==
    \/ target = "lib" /\ pc = "lib_done"
    \/ target = "bin" /\ pc \in {"cooldown", "backoff"}

\* result is the existing snapshot s
ReturnsSnapshot(s) ==
    /\ result.ok
    /\ IF target = "lib"
       THEN result.v = [url |-> Some(s.url),
                        last_archived |-> SampleInstant(s.timestamp),
                        existing_snapshot |-> TRUE]
       ELSE result.v = s.url

\* the selected candidate is younger than 90 days
FreshSelected ==
    /\ availResp.kind = "map"
    /\ \E s \in Selected :
        /\ SampleInstant(s.timestamp) >= 0
        /\ now - SampleInstant(s.timestamp) < 90 * SecondsPerDay

(***************************************************************************)
(* C1: when the availability answer's latest snapshot is less than 90 days *)
(* old, archive_url returns that snapshot and the call issues no save      *)
(* request.                                                                *)
(***************************************************************************)
C1_FreshSnapshotReturnedWithoutSave ==
    (CallReturned /\ FreshSelected)
        => /\ saveResp = NoSave
           /\ \E s \in Selected : ReturnsSnapshot(s)

C1_Witness ==
    /\ CallReturned
    /\ FreshSelected
    /\ Cardinality(availResp.snaps) = 2
    /\ result.ok


\* the final URL's path starts with /web
UnderWeb(path) ==
    /\ path # <<>>
    /\ Len(path[1]) >= 3
    /\ path[1][1] = "w" /\ path[1][2] = "e" /\ path[1][3] = "b"

\* the final URL holds /web/<TsNew>/
HoldsNewStamp(path) ==
    \E i \in 1..Len(path) : path[i] = WebSegment /\ i + 2 <= Len(path) /\ path[i + 1] = TsNew

\* the last save answer has a status the program takes for a capture
SuccessStatus ==
    /\ saveResp.kind = "http"
    /\ saveResp.status = 200 \/ (saveResp.status = 404 /\ UnderWeb(saveResp.path))

\* the availability answer lists no snapshot
NoExisting ==
    availResp.kind = "null" \/ (availResp.kind = "map" /\ availResp.snaps = {})

\* main has recorded exactly the record r for the line, and nothing else
Recorded(r) == pc = "cooldown" /\ urls = Insert(before, line, r)

(***************************************************************************)
(* C2: with no existing snapshot and a save answered 200, the record made  *)
(* for the URL (and stored in the cache) has last_archived equal to the    *)
(* timestamp in the /web/<timestamp>/ segment of the final URL, not the    *)
(* time of the request.                                                    *)
(***************************************************************************)
C2_LastArchivedIsSnapshotTime ==
    (/\ CallReturned
     /\ NoExisting
     /\ saveResp.kind = "http"
     /\ saveResp.status = 200
     /\ HoldsNewStamp(saveResp.path))
        => IF target = "lib"
           THEN result.ok /\ result.v.last_archived = SampleInstant(TsNew)
           ELSE line \in DOMAIN urls /\ urls[line].last_archived = SampleInstant(TsNew)

(***************************************************************************)
(* C3: a save answered 404 whose final path starts with /web has the       *)
(* outcome of a 200 with the same final URL (the outcome below does not    *)
(* depend on which of the two the status is); a 404 elsewhere is an        *)
(* Unknown failure.                                                        *)
(***************************************************************************)
C3_NotFoundUnderWebAsOk ==
    /\ (CallReturned /\ SuccessStatus)
        => IF target = "lib"
           THEN IF HoldsNewStamp(saveResp.path)
                THEN /\ result.ok
                     /\ result.v = [url |-> Some(saveResp.path),
                                    last_archived |-> SampleInstant(TsNew),
                                    existing_snapshot |-> FALSE]
                ELSE ~result.ok /\ result.err = "ParseError"
           ELSE /\ result.ok
                /\ result.v = saveResp.path
                /\ outcome = "archived"
                /\ Recorded([url |-> Some(saveResp.path), last_archived |-> now])
    /\ (/\ CallReturned
        /\ saveResp.kind = "http"
        /\ saveResp.status = 404
        /\ ~UnderWeb(saveResp.path))
        => /\ ~result.ok
           /\ result.err = "Unknown"
           /\ target = "bin" => outcome = "tombstone"

C3_Witness ==
    /\ CallReturned
    /\ saveResp.kind = "http"
    /\ saveResp.status = 404
    /\ UnderWeb(saveResp.path)
    /\ saveResp.path[1] # WebSegment
    /\ target = "bin"
    /\ result.ok

(***************************************************************************)
(* C4: every 509 is followed by one 15-second wait and another attempt for *)
(* the same line, without a cache record for the rate-limited attempt and  *)
(* without a cap: after n answers of 509 and then a 200, main has made     *)
(* exactly n waits and records a success for the line.                     *)
(***************************************************************************)
C4_RateLimitedState ==
    target = "bin" =>
        /\ (saveResp.kind = "http" /\ saveResp.status = 509) => pc = "backoff"
        /\ pc = "backoff" => /\ saveResp.status = 509
                             /\ urls = before
                             /\ n509 = waits + 1
                             /\ availReqs = n509
                             /\ saveReqs = n509
        /\ pc = "avail" => waits = n509 /\ availReqs = n509
        /\ pc \in {"save", "cooldown"} => waits = n509 /\ availReqs = n509 + 1
        /\ (pc = "cooldown" /\ saveResp.kind = "http" /\ saveResp.status = 200)
            => /\ saveReqs = n509 + 1
               /\ outcome = "archived"
               /\ Recorded([url |-> Some(saveResp.path), last_archived |-> now])

C4_RateLimitedStep ==
    (target = "bin" /\ pc = "backoff")
        => /\ pc' = "avail"
           /\ line' = line
           /\ urls' = urls
           /\ waits' = waits + 1
           /\ now' = now + 15

\* C4: in every state and every step of a run, a 509 leads to one 15-second
\* wait and a new attempt for the same line with the cache untouched, and
\* n answers of 509 before a 200 mean n waits and a recorded success
C4_RateLimitRetried == []C4_RateLimitedState /\ [][C4_RateLimitedStep]_vars

C4_Witness ==
    /\ target = "bin"
    /\ pc = "cooldown"
    /\ n509 = MaxRateLimited
    /\ waits = MaxRateLimited
    /\ saveResp.kind = "http"
    /\ saveResp.status = 200
    /\ outcome = "archived"

(***************************************************************************)
(* C5: when the save is answered 403, 520 or 523 and the availability      *)
(* check of the same call obtained an existing snapshot, however old,      *)
(* archive_url succeeds with that snapshot; only without one does the      *)
(* permanent failure propagate.                                            *)
(***************************************************************************)
C5_OldSnapshotSubstitutes ==
    (/\ CallReturned
     /\ saveResp.kind = "http"
     /\ saveResp.status \in {403, 520, 523})
        => IF ExistingObtained
           THEN \E s \in Selected : ReturnsSnapshot(s)
           ELSE ~result.ok /\ result.err \in {"UnableToArchive", "ArchiveFailed"}

(***************************************************************************)
(* C6: every error of resolving a line other than rate limiting (a         *)
(* failure returned by archive_url, an undecodable snapshot timestamp)     *)
(* makes main record exactly one tombstone for the line, url absent and    *)
(* last_archived the current time, after which the line is not tried       *)
(* again.                                                                  *)
(***************************************************************************)
TombstoneRecorded ==
    /\ outcome = "tombstone"
    /\ Recorded([url |-> None, last_archived |-> now])
    /\ availReqs = waits + 1

\* C6: an error of resolving a line, other than rate limiting, leaves
\* exactly one tombstone for the line, dated now, and no further attempt
C6_ErrorRecordedAsTombstone ==
    target = "bin" =>
        /\ (CallReturned /\ ~result.ok /\ result.err # "BandwidthExceeded")
            => TombstoneRecorded
        /\ (availResp.kind = "map" /\ \E s \in Selected : SampleInstant(s.timestamp) < 0)
            => TombstoneRecorded

(***************************************************************************)
(* C7: a cached record of the line with url present and last_archived less *)
(* than 180 days old (100 days, say) ends the line's processing: no        *)
(* availability request, no save request, the cache unchanged.             *)
(***************************************************************************)
C7_ReusableStep ==
    (/\ target = "bin"
     /\ pc = "lookup"
     /\ line \in DOMAIN urls
     /\ urls[line].url.some
     /\ now - urls[line].last_archived < 180 * SecondsPerDay)
        => /\ availReqs = 0 /\ saveReqs = 0
           /\ pc' = "read"
           /\ outcome' = "cached"
           /\ urls' = urls
           /\ availReqs' = 0 /\ saveReqs' = 0

\* C7: every step taken from the lookup of a line whose cached record has a
\* url and is under 180 days old goes to the next line without a request
\* and without a change of the cache
C7_ReusableRecordSkipsRemote == [][C7_ReusableStep]_vars

C7_Witness ==
    /\ target = "bin"
    /\ pc = "read"
    /\ outcome = "cached"
    /\ urls = before
    /\ urls[line].url.some
    /\ now - urls[line].last_archived >= 100 * SecondsPerDay
    /\ now - urls[line].last_archived < 180 * SecondsPerDay

(***************************************************************************)
(* C8: a cached record is reused only if its url is present and it is less *)
(* than 180 days old; a cached tombstone is never reused.                  *)
(***************************************************************************)
C8_TombstoneNeverReused ==
    (target = "bin" /\ outcome = "cached")
        => /\ line \in DOMAIN before
           /\ before[line].url.some

(***************************************************************************)
(* C9: loading the --out file after the final write yields the map that    *)
(* was written, whatever the file held before the write.                   *)
(***************************************************************************)
C9_PersistThenLoadRoundTrips ==
    (target = "bin" /\ pc = "done" /\ out)
        => /\ file.exists
           /\ Deserialize(file.data).ok
           /\ Deserialize(file.data).v = urls

(***************************************************************************)
(* C10: the cache is written every 100 processed lines: once k lines have  *)
(* been processed the --out file holds at least the first                  *)
(* 100 * floor(k / 100) of them.                                           *)
(***************************************************************************)
C10_CheckpointEveryHundred ==
    (target = "bin" /\ out /\ pc = "read" /\ lineIdx >= 100)
        => /\ file.exists
           /\ Deserialize(file.data).ok
           /\ \A i \in 1..(100 * (lineIdx \div 100)) :
                input[i] \in DOMAIN Deserialize(file.data).v

(***************************************************************************)
(* C11: no error of resolving one line (a transport failure, a malformed   *)
(* availability answer, a malformed snapshot timestamp, an unexpected      *)
(* status) ends the run: once a line has been read the program never       *)
(* stops on a panic, and when the input is exhausted the cache holds a     *)
(* record for every line of the input.                                     *)
(***************************************************************************)
C11_NoErrorAbortsBatch ==
    target = "bin" =>
        /\ lineIdx >= 1 => pc # "panicked"
        /\ pc \in {"persist", "done"}
            => \A i \in 1..Len(input) : input[i] \in DOMAIN urls

(***************************************************************************)
(* C12: the lines are processed in input order, one at a time: the line in *)
(* flight is the last one read, every line before it has its record, no    *)
(* request is outstanding when the next line is read, and every request    *)
(* and every cache update of a step is for the line in flight.             *)
(***************************************************************************)
InFlight == pc \in {"lookup", "avail", "save", "backoff", "cooldown"}

C12_OrderedState ==
    target = "bin" =>
        /\ InFlight => /\ lineIdx >= 1
                       /\ line = input[lineIdx]
                       /\ \A j \in 1..(lineIdx - 1) : input[j] \in DOMAIN urls
        /\ pc = "read" => /\ availReqs = 0 /\ saveReqs = 0
                          /\ result = Pending
                          /\ \A j \in 1..lineIdx : input[j] \in DOMAIN urls

C12_OrderedStep ==
    target = "bin" =>
        /\ lineIdx' # lineIdx
            => /\ pc = "read"
               /\ lineIdx' = lineIdx + 1
               /\ line' = input[lineIdx + 1]
               /\ urls' = urls
        /\ (availReqs' > availReqs \/ saveReqs' > saveReqs \/ (InFlight /\ urls' # urls))
            => /\ lineIdx' = lineIdx
               /\ line' = line
               /\ line = input[lineIdx]
               /\ \A k \in (DOMAIN urls \cup DOMAIN urls') \ {line} :
                    k \in DOMAIN urls /\ k \in DOMAIN urls' /\ urls'[k] = urls[k]

\* C12: in every state and step of a run the lines are resolved strictly in
\* input order, each one completed (retries and cache update included)
\* before anything is done for the next
C12_ProcessedInInputOrder == []C12_OrderedState /\ [][C12_OrderedStep]_vars

C12_Witness ==
    /\ target = "bin"
    /\ pc = "save"
    /\ lineIdx = 2
    /\ input[1] # input[2]
    /\ input[1] \in DOMAIN urls
    /\ urls[input[1]].last_archived = NowInit + 2 * 15
    /\ now = NowInit + 2 * 15 + 5

\* the tokens toks hold the record r under the key k
HoldsRecord(toks, k, r) ==
    \E i \in 1..Len(toks) :
        /\ toks[i].t = "key" /\ toks[i].k = k
        /\ i + 2 <= Len(toks)
        /\ toks[i + 1].t = "url" /\ toks[i + 1].u = r.url
        /\ \E j \in {i + 2, i + 3} :
            /\ j <= Len(toks)
            /\ toks[j].t = "time"
            /\ toks[j].f = FieldsOf(r.last_archived)

\* the run is over otherwise than by a failure of reading or writing
EndedWithoutIoFailure == lineIdx >= 1 /\ pc \in {"done", "panicked"}

(***************************************************************************)
(* C13: every run ends with the whole cache written, to the --out file     *)
(* when there is one and to standard output otherwise; what is written     *)
(* holds every record loaded at startup (unless the run replaced it) and   *)
(* every record the run made.                                              *)
(***************************************************************************)
C13_RunEndsWithFullPersist ==
    target = "bin" =>
        /\ EndedWithoutIoFailure => pc = "done"
        /\ (pc = "persist" /\ merge /\ file.exists)
            => \A i \in 1..Len(file.data) :
                 file.data[i].t = "key"
                   => /\ file.data[i].k \in DOMAIN urls
                      /\ (\A j \in 1..Len(input) : input[j] # file.data[i].k)
                          => HoldsRecord(file.data, file.data[i].k,
                                         urls[file.data[i].k])
        /\ pc = "done"
            => /\ \A j \in 1..Len(input) : input[j] \in DOMAIN urls
               /\ IF out
                  THEN /\ file.exists /\ stdout = <<>>
                       /\ \A k \in DOMAIN urls : HoldsRecord(file.data, k, urls[k])
                  ELSE /\ file = NoFile
                       /\ \A k \in DOMAIN urls : HoldsRecord(stdout, k, urls[k])

\* the availability check of this attempt failed: no answer, an answer that
\* is not the expected JSON, or a selected snapshot whose timestamp names no
\* instant
AvailabilityFailed ==
    \/ availResp.kind \in {"transport", "malformed"}
    \/ availResp.kind = "map" /\ \E s \in Selected : SampleInstant(s.timestamp) < 0

(***************************************************************************)
(* C14: when the availability check itself fails, archive_url does not     *)
(* fail there: it goes on to the save request, as when no snapshot is      *)
(* listed.                                                                 *)
(***************************************************************************)
C14_AvailabilityFailureProceedsToSave ==
    AvailabilityFailed => pc \in {"lib_save", "save"} \/ saveResp # NoSave

\* the last save request met a failure that is neither a rate limit nor a
\* permanent failure: no answer, status 500, or a 404 outside /web
UnknownSaveFailure ==
    \/ saveResp.kind = "transport"
    \/ /\ saveResp.kind = "http"
       /\ saveResp.status = 500 \/ (saveResp.status = 404 /\ ~UnderWeb(saveResp.path))

(***************************************************************************)
(* C15: a save answered 509, or failing in an unknown way, makes           *)
(* archive_url return that error even when the availability check of the   *)
(* same call obtained an (old) existing snapshot: the snapshot stands in   *)
(* for a permanent failure only.                                           *)
(***************************************************************************)
C15_OtherErrorsPropagateUnchanged ==
    (CallReturned /\ ExistingObtained)
        => /\ (saveResp.kind = "http" /\ saveResp.status = 509)
                => ~result.ok /\ result.err = "BandwidthExceeded"
           /\ UnknownSaveFailure
                => ~result.ok /\ result.err \in {"Unknown", "Reqwest"}

C15_Witness ==
    /\ target = "lib"
    /\ pc = "lib_done"
    /\ ExistingObtained
    /\ latest.ok
    /\ saveResp.kind = "http"
    /\ saveResp.status = 509
    /\ ~result.ok

(***************************************************************************)
(* C16: a save answered with a success status (200, or 404 under /web)     *)
(* whose final URL holds no /web/<digits>/ segment that decodes to a       *)
(* timestamp is an error for the line: archive_url returns no result with  *)
(* a url, and main records none.                                           *)
(***************************************************************************)
C16_UndecodableSuccessIsError ==
    (CallReturned /\ SuccessStatus /\ ~HoldsNewStamp(saveResp.path))
        => /\ ~result.ok
           /\ target = "bin" => ~(line \in DOMAIN urls /\ urls[line].url.some)

\* the line in flight ended with a snapshot made by this run's save request
FreshlyMinted == outcome = "archived" /\ SuccessStatus

C17_CooldownStep ==
    target = "bin" =>
        /\ cooldowns' > cooldowns
            => /\ FreshlyMinted
               /\ cooldowns' = cooldowns + 1
               /\ now' = now + 5
        /\ (pc = "cooldown" /\ FreshlyMinted) => cooldowns' = cooldowns + 1
        /\ (pc = "lookup" /\ pc' = "read") => cooldowns' = 0 /\ now' = now

(***************************************************************************)
(* C17: main sleeps 5 seconds exactly after a line that ended with a       *)
(* freshly made snapshot: not after one answered by an existing snapshot,  *)
(* not after a tombstone, not after a line found in the cache.             *)
(***************************************************************************)
C17_CooldownOnlyAfterFreshSnapshot == [][C17_CooldownStep]_vars

\* the line in flight waits for the network, for the 15-second sleep or for
\* the 5-second sleep
ProcessingBlocked == pc \in {"avail", "save", "backoff", "cooldown"}

\* a step that takes one more line from standard input
ReadsFurtherLine == Next /\ lineIdx' = lineIdx + 1

(***************************************************************************)
(* C18: reading the input goes on beside the processing: while the line in *)
(* flight waits for the network or sleeps, and input is left, a further    *)
(* line can be read.                                                       *)
(***************************************************************************)
C18_IngestionNotBlockedByProcessing ==
    (target = "bin" /\ ProcessingBlocked /\ lineIdx < Len(input))
        => ENABLED ReadsFurtherLine

(***************************************************************************)
(* The program under the assumption that it is never stopped from outside: *)
(* every request is answered or fails, every sleep ends.                   *)
(***************************************************************************)
FairSpec == Spec /\ WF_vars(Next)

\* the loop over the lines has ended with every line processed
AllLinesProcessed ==
    /\ pc = "persist"
    /\ lineIdx = Len(input)
    /\ \A j \in 1..Len(input) : input[j] \in DOMAIN urls

\* reading standard input failed
InputFailed == pc = "failed" /\ lineIdx < Len(input)

C19_RetryStep ==
    (target = "bin" /\ saveResp.kind = "http" /\ saveResp.status = 509)
        => /\ urls' = urls
           /\ lineIdx' = lineIdx
           /\ line' = line
           /\ pc' = "avail"

(***************************************************************************)
(* C19: when no line is answered 509 for ever (here at most MaxRateLimited *)
(* times), a run that starts on its input goes on to process every line    *)
(* and reaches the final write, unless reading the input fails; a 509      *)
(* leaves the line in flight unrecorded and no later line read.            *)
(***************************************************************************)
C19_FiniteRateLimitsTerminate ==
    /\ (target = "bin" /\ pc = "read") ~> (AllLinesProcessed \/ InputFailed)
    /\ [][C19_RetryStep]_vars

\* the cache held, when the line was read, a record of it made in this run
ResolvedEarlierInRun ==
    line \in DOMAIN before /\ before[line].last_archived >= NowInit

C20_DuplicateState ==
    target = "bin" =>
        /\ pc \in {"avail", "save", "backoff", "cooldown"} => ~ResolvedEarlierInRun
        /\ pc = "cooldown"
            => /\ line \in DOMAIN urls
               /\ urls[line].last_archived = now
               /\ now >= NowInit
        /\ (pc = "read" /\ lineIdx >= 1 /\ ResolvedEarlierInRun)
            => outcome = "cached" /\ urls = before

C20_DuplicateStep ==
    (target = "bin" /\ pc = "lookup" /\ ResolvedEarlierInRun)
        => /\ pc' = "read"
           /\ urls' = urls
           /\ availReqs' = 0 /\ saveReqs' = 0

\* C20: a line that this run has already resolved, to a snapshot or to a
\* tombstone, has a record dated at its resolution, and every later
\* occurrence of it in the same run is skipped without a request and without
\* a change of the cache
C20_DuplicateResolvedOnce == []C20_DuplicateState /\ [][C20_DuplicateStep]_vars

C20_Witness ==
    /\ target = "bin"
    /\ pc = "read"
    /\ lineIdx = 2
    /\ input[1] = input[2]
    /\ outcome = "cached"
    /\ ~urls[line].url.some
    /\ urls[line].last_archived = NowInit + 15
    /\ now = NowInit + 15 + 5

====
